---- MODULE Spec2Model ----
(***************************************************************************)
(* Placement engine of the pallet box placement tool (src/app.py).         *)
(* One pallet run: the box units are expanded from the box types, grouped  *)
(* and ordered, and then handed one by one to find_space_for_box.          *)
(* Dimensions are modelled as naturals (the grid has unit resolution).     *)
(***************************************************************************)
EXTENDS Integers, Sequences, FiniteSets, TLC

VARIABLES pallet, boxes, sorted_boxes, layers, placed_boxes, idx, pc,
          failed_box, result, volumetric_weight, is_perfect

vars == <<pallet, boxes, sorted_boxes, layers, placed_boxes, idx, pc,
          failed_box, result, volumetric_weight, is_perfect>>

----------------------------------------------------------------------------
(* Bounds of the explored inputs *)
MaxPalletLength == 2
MaxPalletWidth == 3
MaxPalletHeight == 3
MaxBoxDim == 2
MaxTypes == 2
MaxQty == 3
MaxUnits == 4
MaxListLen == 3

(* Program constants *)
DefaultThreshold == 80
VolumetricDivisor == 6000
PerfectTolDen == 1000
ScenarioPalletLength == 80
ScenarioPalletWidth == 60
ScenarioPalletHeight == 115
ScenarioBoxLength == 40
ScenarioBoxWidth == 30
ScenarioBoxHeight == 10
ScenarioQty == 6

None == <<>>

\* the ladder tried from its lowest rung
support_thresholds_ascending == <<60, 65, 70, 75, 80>>

support_thresholds == <<80, 75, 70, 65, 60>>

----------------------------------------------------------------------------
(* Small arithmetic helpers *)
Max2(a, b) == IF a >= b THEN a ELSE b
Min2(a, b) == IF a <= b THEN a ELSE b
MinOf(S) == CHOOSE m \in S : \A n \in S : m <= n
MaxOf(S) == CHOOSE m \in S : \A n \in S : m >= n

RECURSIVE SumSeq(_)
SumSeq(s) == IF s = <<>> THEN 0 ELSE Head(s) + SumSeq(Tail(s))

----------------------------------------------------------------------------
(* Classes *)

\* Box.__init__
Box(name, length, width, height, weight, box_id) ==
  [ name |-> name,
    original_length |-> length,
    original_width |-> width,
    original_height |-> height,
    weight |-> weight,
    box_id |-> box_id,
    placed |-> FALSE,
    position |-> None,
    length |-> length,
    width |-> width,
    height |-> height,
    support_threshold_used |-> DefaultThreshold ]

\* Pallet.__init__
Pallet(length, width, height, pallet_id) ==
  [ length |-> length, width |-> width, height |-> height,
    pallet_id |-> pallet_id ]

\* get_rotations without the sort
get_rotations_unsorted(box) ==
  << <<box.original_length, box.original_width, box.original_height>>,
     <<box.original_width, box.original_length, box.original_height>> >>

\* Box.get_rotations: the two base rotations, stably sorted by first component
get_rotations(box) ==
  LET r1 == <<box.original_length, box.original_width, box.original_height>>
      r2 == <<box.original_width, box.original_length, box.original_height>>
  IN IF r2[1] < r1[1] THEN <<r2, r1>> ELSE <<r1, r2>>

\* dimension_tuple without the sort
dimension_tuple_unsorted(box) ==
  <<box.original_length, box.original_width, box.original_height>>

\* Box.dimension_tuple: the three original dimensions sorted ascending
dimension_tuple(box) ==
  LET a == box.original_length
      b == box.original_width
      c == box.original_height
      lo == Min2(a, Min2(b, c))
      hi == Max2(a, Max2(b, c))
  IN <<lo, a + b + c - lo - hi, hi>>

----------------------------------------------------------------------------
(* Helper functions *)

\* group_boxes_by_dimensions: the dict in insertion order, one entry per
\* dimension signature; a group holds the indices of its boxes in input order
RECURSIVE GroupFrom(_, _, _)
GroupFrom(bs, i, groups) ==
  IF i > Len(bs) THEN groups
  ELSE LET dims == dimension_tuple(bs[i])
           hit == {g \in DOMAIN groups : groups[g].dims = dims}
       IN IF hit = {}
          THEN GroupFrom(bs, i + 1,
                 Append(groups,
                   [ dims |-> dims, boxes |-> <<i>>,
                     volume |-> bs[i].original_length * bs[i].original_width
                                  * bs[i].original_height ]))
          ELSE LET g == CHOOSE g \in hit : TRUE
               IN GroupFrom(bs, i + 1,
                    [groups EXCEPT ![g].boxes = Append(@, i)])

group_boxes_by_dimensions(bs) == GroupFrom(bs, 1, <<>>)

\* the sort key of sort_boxes_by_group_priority
GroupKey(g) == <<g.volume * Len(g.boxes), Len(g.boxes)>>

KeyLess(k1, k2) == k1[1] < k2[1] \/ (k1[1] = k2[1] /\ k1[2] < k2[2])

\* sorted(..., reverse=True) is stable: equal keys keep their input order
RECURSIVE InsertGroup(_, _)
InsertGroup(s, g) ==
  IF s = <<>> THEN <<g>>
  ELSE IF KeyLess(GroupKey(Head(s)), GroupKey(g)) THEN <<g>> \o s
       ELSE <<Head(s)>> \o InsertGroup(Tail(s), g)

RECURSIVE SortGroups(_, _, _)
SortGroups(groups, i, acc) ==
  IF i > Len(groups) THEN acc
  ELSE SortGroups(groups, i + 1, InsertGroup(acc, groups[i]))

RECURSIVE Flatten(_)
Flatten(gs) == IF gs = <<>> THEN <<>> ELSE Head(gs).boxes \o Flatten(Tail(gs))

sort_boxes_by_group_priority(groups) == Flatten(SortGroups(groups, 1, <<>>))

\* can_place_box whose overlap test compares y with the other box's near
\* edge instead of its far edge
can_place_box_near_edge(p, placed, box, x, y, z) ==
  /\ ~ ( x + box.length > p.length
         \/ y + box.width > p.width
         \/ z + box.height > p.height )
  /\ \A k \in DOMAIN placed :
        LET other == placed[k]
        IN ( x + box.length <= other.position[1]
             \/ x >= other.position[1] + other.length
             \/ y + box.width <= other.position[2]
             \/ y > other.position[2]
             \/ z + box.height <= other.position[3]
             \/ z >= other.position[3] + other.height )

\* can_place_box with the height comparison of the boundary test left out
can_place_box_no_height(p, placed, box, x, y, z) ==
  /\ ~ ( x + box.length > p.length
         \/ y + box.width > p.width )
  /\ \A k \in DOMAIN placed :
        LET other == placed[k]
        IN ( x + box.length <= other.position[1]
             \/ x >= other.position[1] + other.length
             \/ y + box.width <= other.position[2]
             \/ y >= other.position[2] + other.width
             \/ z + box.height <= other.position[3]
             \/ z >= other.position[3] + other.height )

\* can_place_box: pallet boundaries, then overlap with every placed box
can_place_box(p, placed, box, x, y, z) ==
  /\ ~ ( x + box.length > p.length
         \/ y + box.width > p.width
         \/ z + box.height > p.height )
  /\ \A k \in DOMAIN placed :
        LET other == placed[k]
        IN ( x + box.length <= other.position[1]
             \/ x >= other.position[1] + other.length
             \/ y + box.width <= other.position[2]
             \/ y >= other.position[2] + other.width
             \/ z + box.height <= other.position[3]
             \/ z >= other.position[3] + other.height )

\* the footprint overlap of is_supported's loop body
OverlapArea(box, other) ==
  LET x_overlap == Max2(0, Min2(box.position[1] + box.length,
                                other.position[1] + other.length)
                           - Max2(box.position[1], other.position[1]))
      y_overlap == Max2(0, Min2(box.position[2] + box.width,
                                other.position[2] + other.width)
                           - Max2(box.position[2], other.position[2]))
  IN x_overlap * y_overlap

RECURSIVE SupportArea(_, _, _)
SupportArea(placed, box, k) ==
  IF k > Len(placed) THEN 0
  ELSE (IF placed[k].position[3] + placed[k].height = box.position[3]
        THEN OverlapArea(box, placed[k]) ELSE 0)
       + SupportArea(placed, box, k + 1)

\* support_percentage as the exact fraction num / den
SupportPercentage(placed, box) ==
  IF box.position[3] = 0 THEN [num |-> 100, den |-> 1]
  ELSE [ num |-> 100 * SupportArea(placed, box, 1),
         den |-> box.length * box.width ]

\* is_supported comparing against the lowest rung whatever the threshold
is_supported_fixed60(placed, box, support_threshold) ==
  LET pct == SupportPercentage(placed, box)
  IN [ flag |-> pct.num >= 60 * pct.den, pct |-> pct ]

\* is_supported: (is_sufficient, support_percentage)
is_supported(placed, box, support_threshold) ==
  LET pct == SupportPercentage(placed, box)
  IN [ flag |-> pct.num >= support_threshold * pct.den, pct |-> pct ]

\* generate_possible_positions with the two loops exchanged
generate_possible_positions_y_outer(p, placed, box, z) ==
  LET nx == Max2(0, p.length - box.length + 1)
      ny == Max2(0, p.width - box.width + 1)
  IN [i \in 1..(nx * ny) |-> <<(i - 1) % nx, (i - 1) \div nx>>]

\* generate_possible_positions: x is the outer loop, y the inner one
generate_possible_positions(p, placed, box, z) ==
  LET nx == Max2(0, p.length - box.length + 1)
      ny == Max2(0, p.width - box.width + 1)
  IN [i \in 1..(nx * ny) |-> <<(i - 1) \div ny, (i - 1) % ny>>]

\* calculate_volumetric_weight as the exact fraction num / den
MaxHeightOf(placed) ==
  IF placed = <<>> THEN 0
  ELSE MaxOf({placed[k].position[3] + placed[k].height : k \in DOMAIN placed})

calculate_volumetric_weight(p, placed) ==
  [ num |-> p.length * p.width * MaxHeightOf(placed), den |-> VolumetricDivisor ]

\* check_perfect_arrangement: math.isclose(total, pallet_volume, rel_tol=1e-3)
check_perfect_arrangement(p, placed) ==
  LET total == SumSeq([k \in DOMAIN placed |->
                         placed[k].length * placed[k].width * placed[k].height])
      pallet_volume == p.length * p.width * p.height
      diff == IF total >= pallet_volume THEN total - pallet_volume
              ELSE pallet_volume - total
  IN diff * PerfectTolDen <= Max2(total, pallet_volume)

----------------------------------------------------------------------------
(* find_space_for_box *)

\* sorted(layers)
RECURSIVE SortedLayers(_)
SortedLayers(S) ==
  IF S = {} THEN <<>>
  ELSE LET m == MinOf(S) IN <<m>> \o SortedLayers(S \ {m})

\* the (layer, rotation) iterations of the existing-layers loops, in order
ExistingPasses(box, lyrs) ==
  LET zs == SortedLayers(lyrs)
      rots == get_rotations(box)
  IN [k \in 1..(2 * Len(zs)) |->
        [z |-> zs[((k - 1) \div 2) + 1], rotation |-> rots[((k - 1) % 2) + 1]]]

\* the rotation iterations of the new-layer loop at z = max_height
NewLayerPasses(box, max_height) ==
  LET rots == get_rotations(box)
  IN [k \in 1..2 |-> [z |-> max_height, rotation |-> rots[k]]]

\* the threshold loop: index of the first satisfied threshold, 0 if none
FirstThreshold(placed, box) ==
  LET ok == {t \in DOMAIN support_thresholds :
               is_supported(placed, box, support_thresholds[t]).flag}
  IN IF ok = {} THEN 0 ELSE MinOf(ok)

\* the loops without the early return: the last accepting position wins
RECURSIVE SearchPasses_last(_, _, _, _, _)
SearchPasses_last(p, placed, box, passes, k) ==
  IF k > Len(passes) THEN [found |-> FALSE, box |-> box]
  ELSE
    LET z == passes[k].z
        rot == passes[k].rotation
        b1 == [box EXCEPT !.length = rot[1], !.width = rot[2], !.height = rot[3]]
        positions == generate_possible_positions(p, placed, b1, z)
        At(i) == [b1 EXCEPT !.position = <<positions[i][1], positions[i][2], z>>]
        Accepts(i) ==
          /\ can_place_box(p, placed, At(i), positions[i][1], positions[i][2], z)
          /\ FirstThreshold(placed, At(i)) # 0
        hits == {i \in 1..Len(positions) : Accepts(i)}
    IN IF hits # {}
       THEN LET i == MaxOf(hits)
            IN [ found |-> TRUE,
                 box |-> [At(i) EXCEPT !.support_threshold_used =
                            support_thresholds[FirstThreshold(placed, At(i))]] ]
       ELSE SearchPasses_last(p, placed,
              IF Len(positions) = 0 THEN b1 ELSE At(Len(positions)),
              passes, k + 1)

\* the rotation / position / threshold loops over a list of passes; box
\* carries the working dimensions and position the loops overwrite
RECURSIVE SearchPasses(_, _, _, _, _)
SearchPasses(p, placed, box, passes, k) ==
  IF k > Len(passes) THEN [found |-> FALSE, box |-> box]
  ELSE
    LET z == passes[k].z
        rot == passes[k].rotation
        b1 == [box EXCEPT !.length = rot[1], !.width = rot[2], !.height = rot[3]]
        positions == generate_possible_positions(p, placed, b1, z)
        At(i) == [b1 EXCEPT !.position = <<positions[i][1], positions[i][2], z>>]
        Accepts(i) ==
          /\ can_place_box(p, placed, At(i), positions[i][1], positions[i][2], z)
          /\ FirstThreshold(placed, At(i)) # 0
        hits == {i \in 1..Len(positions) : Accepts(i)}
    IN IF hits # {}
       THEN LET i == MinOf(hits)
            IN [ found |-> TRUE,
                 box |-> [At(i) EXCEPT !.support_threshold_used =
                            support_thresholds[FirstThreshold(placed, At(i))]] ]
       ELSE SearchPasses(p, placed,
              IF Len(positions) = 0 THEN b1 ELSE At(Len(positions)),
              passes, k + 1)

\* find_space_for_box clearing the trial position when it fails
find_space_for_box_reset(p, placed, box, lyrs) ==
  LET existing == SearchPasses(p, placed, box, ExistingPasses(box, lyrs), 1)
      max_height == MaxHeightOf(placed)
      fresh == SearchPasses(p, placed, existing.box,
                            NewLayerPasses(box, max_height), 1)
  IN IF existing.found
     THEN [ok |-> TRUE, box |-> existing.box, layers |-> lyrs]
     ELSE IF max_height + existing.box.height > p.height
     THEN [ok |-> FALSE, box |-> [existing.box EXCEPT !.position = None],
           layers |-> lyrs]
     ELSE IF fresh.found
     THEN [ok |-> TRUE, box |-> fresh.box, layers |-> lyrs \cup {max_height}]
     ELSE [ok |-> FALSE, box |-> [fresh.box EXCEPT !.position = None],
           layers |-> lyrs]

\* find_space_for_box accepting on a new layer without recording the layer
find_space_for_box_no_add(p, placed, box, lyrs) ==
  LET existing == SearchPasses(p, placed, box, ExistingPasses(box, lyrs), 1)
      max_height == MaxHeightOf(placed)
      fresh == SearchPasses(p, placed, existing.box,
                            NewLayerPasses(box, max_height), 1)
  IN IF existing.found
     THEN [ok |-> TRUE, box |-> existing.box, layers |-> lyrs]
     ELSE IF max_height + existing.box.height > p.height
     THEN [ok |-> FALSE, box |-> existing.box, layers |-> lyrs]
     ELSE [ok |-> fresh.found, box |-> fresh.box, layers |-> lyrs]

\* find_space_for_box without the new-layer fallback
find_space_for_box_no_fallback(p, placed, box, lyrs) ==
  LET existing == SearchPasses(p, placed, box, ExistingPasses(box, lyrs), 1)
  IN [ok |-> existing.found, box |-> existing.box, layers |-> lyrs]

find_space_for_box(p, placed, box, lyrs) ==
  LET existing == SearchPasses(p, placed, box, ExistingPasses(box, lyrs), 1)
      max_height == MaxHeightOf(placed)
      fresh == SearchPasses(p, placed, existing.box,
                            NewLayerPasses(box, max_height), 1)
  IN IF existing.found
     THEN [ok |-> TRUE, box |-> existing.box, layers |-> lyrs]
     ELSE IF max_height + existing.box.height > p.height
     THEN [ok |-> FALSE, box |-> existing.box, layers |-> lyrs]
     ELSE IF fresh.found
     THEN [ok |-> TRUE, box |-> fresh.box, layers |-> lyrs \cup {max_height}]
     ELSE [ok |-> FALSE, box |-> fresh.box, layers |-> lyrs]

----------------------------------------------------------------------------
(* The pallet run *)

\* the box types the form can describe, within the bounds
BoxTypes ==
  [ length : 1..MaxBoxDim, width : 1..MaxBoxDim, height : 1..MaxBoxDim,
    quantity : 1..MaxQty ]

TotalQuantity(d) == SumSeq([t \in 1..Len(d) |-> d[t].quantity])

TypeLists ==
  {d \in UNION {[1..n -> BoxTypes] : n \in 1..MaxTypes} :
     TotalQuantity(d) <= MaxUnits}

\* main: quantity units per box type, box_id counting from 0
RECURSIVE InstantiateBoxes(_, _, _)
InstantiateBoxes(box_details, t, acc) ==
  IF t > Len(box_details) THEN acc
  ELSE LET d == box_details[t]
           units == [q \in 1..d.quantity |->
                       Box(t, d.length, d.width, d.height, 1, Len(acc) + q - 1)]
       IN InstantiateBoxes(box_details, t + 1, acc \o units)

Pallets ==
  { Pallet(l, w, h, 1) : l \in 1..MaxPalletLength, w \in 1..MaxPalletWidth,
                         h \in 1..MaxPalletHeight }

\* the default form values with the quantity of six
ScenarioPallet ==
  Pallet(ScenarioPalletLength, ScenarioPalletWidth, ScenarioPalletHeight, 1)

ScenarioBoxes ==
  InstantiateBoxes(<< [ length |-> ScenarioBoxLength, width |-> ScenarioBoxWidth,
                        height |-> ScenarioBoxHeight, quantity |-> ScenarioQty ] >>,
                   1, <<>>)

\* the placed boxes as records, in placement order
PlacedRecs == [k \in 1..Len(placed_boxes) |-> boxes[placed_boxes[k]]]

InitRun ==
  /\ sorted_boxes = <<>>
  /\ layers = {0}
  /\ placed_boxes = <<>>
  /\ idx = 0
  /\ pc = "order"
  /\ failed_box = 0
  /\ result = None
  /\ volumetric_weight = None
  /\ is_perfect = FALSE

Init ==
  /\ \/ /\ pallet \in Pallets
        /\ boxes \in {InstantiateBoxes(d, 1, <<>>) : d \in TypeLists}
     \/ /\ pallet = ScenarioPallet
        /\ boxes = ScenarioBoxes
  /\ InitRun

\* place_boxes, first step: the processing sequence
GroupAndSort ==
  /\ pc = "order"
  /\ sorted_boxes' = sort_boxes_by_group_priority(group_boxes_by_dimensions(boxes))
  /\ idx' = 1
  /\ pc' = "place"
  /\ UNCHANGED <<pallet, boxes, layers, placed_boxes, failed_box, result,
                 volumetric_weight, is_perfect>>

\* the call of find_space_for_box for the next box of the sequence
Attempt ==
  find_space_for_box(pallet, PlacedRecs, boxes[sorted_boxes[idx]], layers)

\* place_boxes, loop body: the box is accepted and appended
PlaceBox ==
  /\ pc = "place"
  /\ idx <= Len(sorted_boxes)
  /\ Attempt.ok
  /\ boxes' = [boxes EXCEPT ![sorted_boxes[idx]] =
                 [Attempt.box EXCEPT !.placed = TRUE]]
  /\ layers' = Attempt.layers
  /\ placed_boxes' = Append(placed_boxes, sorted_boxes[idx])
  /\ idx' = idx + 1
  /\ UNCHANGED <<pallet, sorted_boxes, pc, failed_box, result,
                 volumetric_weight, is_perfect>>

\* place_boxes, loop body: the box is unplaceable and the run is aborted
FailBox ==
  /\ pc = "place"
  /\ idx <= Len(sorted_boxes)
  /\ ~ Attempt.ok
  /\ boxes' = [boxes EXCEPT ![sorted_boxes[idx]] = Attempt.box]
  /\ layers' = Attempt.layers
  /\ failed_box' = sorted_boxes[idx]
  /\ result' = <<>>
  /\ pc' = "failed"
  /\ UNCHANGED <<pallet, sorted_boxes, placed_boxes, idx, volumetric_weight,
                 is_perfect>>

\* place_boxes returns the full placed list; main computes the metric
Finish ==
  /\ pc = "place"
  /\ idx > Len(sorted_boxes)
  /\ result' = placed_boxes
  /\ is_perfect' = check_perfect_arrangement(pallet, PlacedRecs)
  /\ volumetric_weight' = calculate_volumetric_weight(pallet, PlacedRecs)
  /\ pc' = "done"
  /\ UNCHANGED <<pallet, boxes, sorted_boxes, layers, placed_boxes, idx,
                 failed_box>>

Next == GroupAndSort \/ PlaceBox \/ FailBox \/ Finish

Spec == Init /\ [][Next]_vars

\* Grouping and ordering applied to an arbitrary list of box units
BoxLists ==
  UNION { [1..n -> (1..MaxBoxDim) \X (1..MaxBoxDim) \X (1..MaxBoxDim)] :
            n \in 1..MaxListLen }

InitGroup ==
  /\ pallet = Pallet(MaxPalletLength, MaxPalletWidth, MaxPalletHeight, 1)
  /\ boxes \in { [i \in 1..Len(d) |-> Box(i, d[i][1], d[i][2], d[i][3], 1, i - 1)] :
                   d \in BoxLists }
  /\ InitRun

NextGroup == GroupAndSort

SpecGroup == InitGroup /\ [][NextGroup]_vars

----------------------------------------------------------------------------
(* Geometry of a placement, stated on extents *)

Extent(lo, len) == lo .. (lo + len - 1)

XExt(b) == Extent(b.position[1], b.length)
YExt(b) == Extent(b.position[2], b.width)
ZExt(b) == Extent(b.position[3], b.height)

Intersect3D(a, b) ==
  /\ XExt(a) \cap XExt(b) # {}
  /\ YExt(a) \cap YExt(b) # {}
  /\ ZExt(a) \cap ZExt(b) # {}

WithinPallet(b) ==
  /\ b.position[1] >= 0 /\ b.position[2] >= 0 /\ b.position[3] >= 0
  /\ b.position[1] + b.length <= pallet.length
  /\ b.position[2] + b.width <= pallet.width
  /\ b.position[3] + b.height <= pallet.height

\* footprint area of b resting on the boxes of before whose top face is at b's z
RestingArea(before, b) ==
  SumSeq([k \in 1..Len(before) |->
            IF before[k].position[3] + before[k].height = b.position[3]
            THEN Cardinality(XExt(b) \cap XExt(before[k]))
                 * Cardinality(YExt(b) \cap YExt(before[k]))
            ELSE 0])

\* 100 * support fraction >= t percent, for a box above the floor
RestsAtLeast(before, b, t) ==
  100 * RestingArea(before, b) >= t * (b.length * b.width)

Ladder == {80, 75, 70, 65, 60}

PlacedBefore(k) == SubSeq(PlacedRecs, 1, k - 1)

----------------------------------------------------------------------------
\* C1 -- No overlap: after every prefix of the placement sequence, no two
\* distinct placed boxes have extents that intersect on all three axes at
\* once; boxes that only touch on a face are allowed.
NoOverlap ==
  \A i \in 1..Len(placed_boxes) : \A j \in 1..Len(placed_boxes) :
     i # j => ~ Intersect3D(PlacedRecs[i], PlacedRecs[j])

\* two placed boxes touching on a face
NoOverlapWitness ==
  \E i \in 1..Len(placed_boxes) : \E j \in 1..Len(placed_boxes) :
     /\ i # j
     /\ PlacedRecs[i].position[3] = PlacedRecs[j].position[3]
     /\ PlacedRecs[i].position[1] + PlacedRecs[i].length = PlacedRecs[j].position[1]
     /\ YExt(PlacedRecs[i]) \cap YExt(PlacedRecs[j]) # {}

\* C2 -- Bounds: every placed box, with the oriented dimensions it was
\* accepted with, lies inside the pallet on all three axes, whether it was
\* accepted on an existing layer or on a new one.
Bounds ==
  \A k \in 1..Len(placed_boxes) : WithinPallet(PlacedRecs[k])

\* a run with a box accepted on the floor layer and one accepted on a layer
\* opened by the fallback, the latter reaching the pallet's top
BoundsWitness ==
  /\ \E k \in 1..Len(placed_boxes) : PlacedRecs[k].position[3] = 0
  /\ \E k \in 1..Len(placed_boxes) :
        /\ PlacedRecs[k].position[3] > 0
        /\ PlacedRecs[k].position[3] + PlacedRecs[k].height = pallet.height

\* C3 -- Support: a placed box with z > 0 rests, on the boxes placed before
\* it, on at least its recorded support_threshold_used percent of its
\* footprint; the recorded value is a ladder value; a box at z = 0 is
\* reported as 100% supported.
Support ==
  \A k \in 1..Len(placed_boxes) :
     LET b == PlacedRecs[k]
     IN /\ b.support_threshold_used \in Ladder
        /\ b.position[3] > 0 =>
             RestsAtLeast(PlacedBefore(k), b, b.support_threshold_used)
        /\ b.position[3] = 0 =>
             LET r == is_supported(PlacedBefore(k), b, b.support_threshold_used)
             IN r.flag /\ r.pct.num = 100 * r.pct.den

\* a box above the floor accepted below full support, and a box on the floor
SupportWitness ==
  /\ \E k \in 1..Len(placed_boxes) :
        /\ PlacedRecs[k].position[3] > 0
        /\ ~ RestsAtLeast(PlacedBefore(k), PlacedRecs[k], 100)
  /\ \E k \in 1..Len(placed_boxes) : PlacedRecs[k].position[3] = 0

----------------------------------------------------------------------------
(* Legal slots of a box, stated without the search *)

Slot(b, l, w, x, y, z) ==
  [position |-> <<x, y, z>>, length |-> l, width |-> w, height |-> b.original_height]

TopOf(before) ==
  IF Len(before) = 0 THEN 0
  ELSE LET tops == {before[k].position[3] + before[k].height : k \in 1..Len(before)}
       IN CHOOSE t \in tops : \A u \in tops : u <= t

LegalSlot(before, c) ==
  /\ WithinPallet(c)
  /\ \A k \in 1..Len(before) : ~ Intersect3D(c, before[k])
  /\ c.position[3] = 0 \/ RestsAtLeast(before, c, 60)

Orientations(b) ==
  { <<b.original_length, b.original_width>>, <<b.original_width, b.original_length>> }

HasLegalSlot(before, lyrs, b) ==
  \E z \in lyrs \cup {TopOf(before)} : \E o \in Orientations(b) :
    \E x \in 0..(pallet.length - o[1]) : \E y \in 0..(pallet.width - o[2]) :
       LegalSlot(before, Slot(b, o[1], o[2], x, y, z))

FitsFootprint(b) ==
  \E o \in Orientations(b) : o[1] <= pallet.length /\ o[2] <= pallet.width

Untouched(b) ==
  /\ b.position = None /\ ~ b.placed
  /\ b.length = b.original_length /\ b.width = b.original_width
  /\ b.height = b.original_height

\* C4 -- All-or-nothing failure: the run fails at the first box of the
\* sequence that has no legal slot (a box that fits the footprint in neither
\* rotation is one), naming that box and returning no placed list; the boxes
\* after it are not attempted and the boxes placed before it stay as they are.
AllOrNothing ==
  /\ [](pc = "failed" =>
          /\ result = <<>>
          /\ failed_box = sorted_boxes[idx]
          /\ ~ HasLegalSlot(PlacedRecs, layers, boxes[failed_box])
          /\ placed_boxes = SubSeq(sorted_boxes, 1, idx - 1)
          /\ \A j \in (idx + 1)..Len(sorted_boxes) : Untouched(boxes[sorted_boxes[j]]))
  /\ [][ ( /\ pc = "place" /\ idx <= Len(sorted_boxes)
           /\ ~ HasLegalSlot(PlacedRecs, layers, boxes[sorted_boxes[idx]]) )
         => ( /\ pc' = "failed"
              /\ failed_box' = sorted_boxes[idx]
              /\ placed_boxes' = placed_boxes
              /\ \A k \in 1..Len(placed_boxes) :
                    boxes'[placed_boxes[k]] = boxes[placed_boxes[k]] ) ]_vars

\* a run aborted at a box that fits the footprint in neither rotation, after
\* a box was placed and with a box still waiting
AllOrNothingWitness ==
  /\ pc = "failed"
  /\ ~ FitsFootprint(boxes[failed_box])
  /\ Len(placed_boxes) >= 1
  /\ idx < Len(sorted_boxes)

----------------------------------------------------------------------------
(* Dimension signatures, stated by counting *)

DimCount(b, v) ==
  (IF b.original_length = v THEN 1 ELSE 0)
  + (IF b.original_width = v THEN 1 ELSE 0)
  + (IF b.original_height = v THEN 1 ELSE 0)

SameSignature(a, b) ==
  \A v \in {a.original_length, a.original_width, a.original_height,
            b.original_length, b.original_width, b.original_height} :
     DimCount(a, v) = DimCount(b, v)

GroupCount(i) ==
  Cardinality({j \in 1..Len(boxes) : SameSignature(boxes[i], boxes[j])})

GroupVolume(i) ==
  boxes[i].original_length * boxes[i].original_width * boxes[i].original_height
  * GroupCount(i)

\* C5 -- Grouping and ordering: the processing sequence is a permutation of
\* the input in which boxes of one dimension signature are contiguous and the
\* groups come in non-increasing order of unit volume x group count, the
\* larger group first when that product ties.
GroupingOrder ==
  pc = "place" =>
    /\ Len(sorted_boxes) = Len(boxes)
    /\ {sorted_boxes[k] : k \in 1..Len(sorted_boxes)} = 1..Len(boxes)
    /\ \A i \in 1..Len(sorted_boxes) : \A j \in i..Len(sorted_boxes) :
          \A k \in j..Len(sorted_boxes) :
             SameSignature(boxes[sorted_boxes[i]], boxes[sorted_boxes[k]])
               => SameSignature(boxes[sorted_boxes[i]], boxes[sorted_boxes[j]])
    /\ \A i \in 1..Len(sorted_boxes) : \A j \in (i + 1)..Len(sorted_boxes) :
          ~ SameSignature(boxes[sorted_boxes[i]], boxes[sorted_boxes[j]])
            => \/ GroupVolume(sorted_boxes[i]) > GroupVolume(sorted_boxes[j])
               \/ /\ GroupVolume(sorted_boxes[i]) = GroupVolume(sorted_boxes[j])
                  /\ GroupCount(sorted_boxes[i]) >= GroupCount(sorted_boxes[j])

\* two congruent boxes given in different orientations with another box
\* between them, and the group of two moved ahead of it
GroupingOrderWitness ==
  /\ pc = "place"
  /\ Len(boxes) = 3
  /\ SameSignature(boxes[1], boxes[3])
  /\ boxes[1].original_length # boxes[3].original_length
  /\ ~ SameSignature(boxes[1], boxes[2])
  /\ sorted_boxes = <<1, 3, 2>>

----------------------------------------------------------------------------
(* Scenario A: pallet 80 x 60 x 115, six boxes 40 x 30 x 10 *)

OnFloor == {k \in 1..Len(placed_boxes) : PlacedRecs[k].position[3] = 0}

\* C6 as stated -- the run places all 6 boxes, four of them on the floor in a
\* 2 x 2 arrangement, the greatest occupied height is 10 and the volumetric
\* weight is 80*60*10/6000 = 8.
ScenarioAStated ==
  (pallet = ScenarioPallet /\ pc = "done") =>
    /\ Len(result) = ScenarioQty
    /\ Cardinality(OnFloor) = 4
    /\ {<<PlacedRecs[k].position[1], PlacedRecs[k].position[2]>> : k \in OnFloor}
         = {<<0, 0>>, <<40, 0>>, <<0, 30>>, <<40, 30>>}
    /\ TopOf(PlacedRecs) = 10
    /\ volumetric_weight.num = 8 * volumetric_weight.den

\* C6 -- Scenario A: the run does not fail and places all 6 boxes, two per
\* layer in the 30 x 40 orientation at (0,0) and (30,0) on the layers 0, 10
\* and 20; the greatest occupied height is 30 and the volumetric weight is
\* 80*60*30/6000 = 24.
ScenarioA ==
  pallet = ScenarioPallet =>
    /\ pc # "failed"
    /\ pc = "done" =>
         /\ Len(result) = ScenarioQty
         /\ \A k \in 1..Len(placed_boxes) :
               /\ PlacedRecs[k].length = 30 /\ PlacedRecs[k].width = 40
               /\ PlacedRecs[k].position =
                    <<30 * ((k - 1) % 2), 0, 10 * ((k - 1) \div 2)>>
         /\ layers = {0, 10, 20}
         /\ TopOf(PlacedRecs) = 30
         /\ volumetric_weight.num = 24 * volumetric_weight.den

ScenarioAWitness ==
  /\ pallet = ScenarioPallet /\ pc = "done"
  /\ Len(boxes) = ScenarioQty /\ Len(result) = ScenarioQty

----------------------------------------------------------------------------
\* the greatest ladder value not above the support of the k-th placed box
BestTier(k) ==
  LET b == PlacedRecs[k]
      met == {t \in Ladder :
                b.position[3] = 0 \/ RestsAtLeast(PlacedBefore(k), b, t)}
  IN CHOOSE t \in met : \A u \in met : u <= t

\* C7 -- Threshold tier selection: the support_threshold_used recorded for
\* an accepted box is the greatest ladder value that does not exceed the
\* support percentage of its slot; a slot supported at 75% records 75.
ThresholdTier ==
  \A k \in 1..Len(placed_boxes) :
     PlacedRecs[k].support_threshold_used = BestTier(k)

\* a box accepted on a slot supported at exactly 75%
ThresholdTierWitness ==
  \E k \in 1..Len(placed_boxes) :
     LET b == PlacedRecs[k]
     IN /\ b.position[3] > 0
        /\ 100 * RestingArea(PlacedBefore(k), b) = 75 * (b.length * b.width)
        /\ b.support_threshold_used = 75

----------------------------------------------------------------------------
(* Position Search, for every box of the run in both orientations *)

Grid(o) ==
  {<<x, y>> : x \in 0..(pallet.length - o[1]), y \in 0..(pallet.width - o[2])}

PositionsOf(b, o) ==
  generate_possible_positions(pallet, PlacedRecs,
    [b EXCEPT !.length = o[1], !.width = o[2]], 0)

ExactlyGrid(P, o) ==
  /\ {P[i] : i \in 1..Len(P)} = Grid(o)
  /\ Len(P) = Cardinality(Grid(o))

\* C8 as stated -- the grid points, each once, x ascending within y ascending
PositionSearchStated ==
  \A n \in 1..Len(boxes) : \A o \in Orientations(boxes[n]) :
     LET P == PositionsOf(boxes[n], o)
     IN /\ ExactlyGrid(P, o)
        /\ \A i \in 1..(Len(P) - 1) :
              \/ P[i][2] < P[i + 1][2]
              \/ P[i][2] = P[i + 1][2] /\ P[i][1] < P[i + 1][1]

\* C8 -- Position Search: generate_possible_positions returns exactly the
\* grid points 0 <= x <= pallet.length - box.length, 0 <= y <= pallet.width -
\* box.width (none when the box does not fit), each once, y ascending within
\* x ascending: (0,0), (0,1), (0,2), ... before (1,0).
PositionSearch ==
  \A n \in 1..Len(boxes) : \A o \in Orientations(boxes[n]) :
     LET P == PositionsOf(boxes[n], o)
     IN /\ ExactlyGrid(P, o)
        /\ \A i \in 1..(Len(P) - 1) :
              \/ P[i][1] < P[i + 1][1]
              \/ P[i][1] = P[i + 1][1] /\ P[i][2] < P[i + 1][2]

\* a box with at least two positions on each axis
PositionSearchWitness ==
  \E n \in 1..Len(boxes) : \E o \in Orientations(boxes[n]) :
     LET P == PositionsOf(boxes[n], o)
     IN Len(P) >= 4 /\ P[1] = <<0, 0>> /\ P[2] = <<0, 1>> /\ P[3] = <<1, 0>>

----------------------------------------------------------------------------
(* Box position lifecycle *)

Accepted(n) == \E k \in 1..Len(placed_boxes) : placed_boxes[k] = n

\* the level of the last pass of a failed search
LastLevel(b) ==
  IF TopOf(PlacedRecs) + b.original_height <= pallet.height
  THEN TopOf(PlacedRecs)
  ELSE CHOOSE z \in layers : \A u \in layers : u <= z

\* C9 as stated, first half -- a box unit that has not been accepted, a box
\* for which find_space_for_box returned failure included, has position None.
UnacceptedHasNoPosition ==
  \A n \in 1..Len(boxes) : ~ Accepted(n) => boxes[n].position = None

\* C9 -- Box position lifecycle: a box unit on which find_space_for_box has
\* not been called has position None; a box for which it returned failure
\* keeps the last candidate tried, the far corner position of a fitting
\* orientation on the last level searched (None only when neither
\* orientation fits the footprint); once a box is accepted its position and
\* oriented dimensions never change.
PositionLifecycle ==
  /\ [](\A n \in 1..Len(boxes) :
          /\ (~ Accepted(n) /\ ~ (pc = "failed" /\ n = failed_box))
               => Untouched(boxes[n])
          /\ (pc = "failed" /\ n = failed_box) =>
               /\ ~ boxes[n].placed
               /\ IF ~ FitsFootprint(boxes[n]) THEN boxes[n].position = None
                  ELSE \E o \in Orientations(boxes[n]) :
                         /\ o[1] <= pallet.length /\ o[2] <= pallet.width
                         /\ boxes[n].position =
                              <<pallet.length - o[1], pallet.width - o[2],
                                LastLevel(boxes[n])>>
          /\ Accepted(n) => boxes[n].placed /\ boxes[n].position # None)
  /\ [][\A k \in 1..Len(placed_boxes) :
          /\ placed_boxes'[k] = placed_boxes[k]
          /\ boxes'[placed_boxes[k]] = boxes[placed_boxes[k]]]_vars

\* a failed box left with a trial position, beside an accepted box and a
\* box never attempted
PositionLifecycleWitness ==
  /\ pc = "failed"
  /\ boxes[failed_box].position # None
  /\ Len(placed_boxes) >= 1
  /\ idx < Len(sorted_boxes)

----------------------------------------------------------------------------
(* First-feasible search order *)

\* rank of an orientation: the one with the smaller first dimension is 1
RotRank(b, o) ==
  IF o[1] = Min2(b.original_length, b.original_width) THEN 1 ELSE 2

\* candidate (o, x, y) comes before slot c within one level
EarlierOnLevel(b, o, x, y, c) ==
  \/ RotRank(b, o) < RotRank(b, <<c.length, c.width>>)
  \/ /\ RotRank(b, o) = RotRank(b, <<c.length, c.width>>)
     /\ (x < c.position[1] \/ (x = c.position[1] /\ y < c.position[2]))

NoneLegalBefore(before, b, z, c, whole) ==
  \A o \in Orientations(b) :
    \A x \in 0..(pallet.length - o[1]) : \A y \in 0..(pallet.width - o[2]) :
       (whole \/ EarlierOnLevel(b, o, x, y, c))
         => ~ LegalSlot(before, Slot(b, o[1], o[2], x, y, z))

\* C10 -- First-feasible search order: the slot a box is accepted at is
\* legal (in bounds, no overlap, support >= 60%) and no candidate before it
\* -- existing layers ascending, then the orientation with the smaller first
\* dimension first, then positions in Position Search order -- is legal; a
\* slot off the existing layers is at the top of the stack and is taken only
\* when no candidate on an existing layer is legal.
FirstFeasible ==
  [][ Len(placed_boxes') = Len(placed_boxes) + 1 =>
        LET n == sorted_boxes[idx]
            b == boxes[n]
            c == boxes'[n]
            before == PlacedRecs
        IN /\ placed_boxes'[Len(placed_boxes')] = n
           /\ <<c.length, c.width>> \in Orientations(b)
           /\ c.height = b.original_height
           /\ LegalSlot(before, c)
           /\ IF c.position[3] \in layers
              THEN /\ \A z \in layers :
                        z < c.position[3] => NoneLegalBefore(before, b, z, c, TRUE)
                   /\ NoneLegalBefore(before, b, c.position[3], c, FALSE)
                   /\ layers' = layers
              ELSE /\ c.position[3] = TopOf(before)
                   /\ \A z \in layers : NoneLegalBefore(before, b, z, c, TRUE)
                   /\ NoneLegalBefore(before, b, c.position[3], c, FALSE) ]_vars

\* a box accepted away from the origin on a layer above the floor that an
\* earlier box had opened, every candidate before its slot being illegal
FirstFeasibleWitness ==
  \E j \in 1..Len(placed_boxes) : \E k \in 1..Len(placed_boxes) :
     /\ j < k
     /\ PlacedRecs[k].position[3] > 0
     /\ PlacedRecs[j].position[3] = PlacedRecs[k].position[3]
     /\ PlacedRecs[k].position[1] + PlacedRecs[k].position[2] > 0

----------------------------------------------------------------------------
(* Layer set evolution *)

\* the step is a call of find_space_for_box that accepted the box
AcceptStep == Len(placed_boxes') = Len(placed_boxes) + 1

\* the step is a call of find_space_for_box that returned failure
FailStep == pc = "place" /\ pc' = "failed"

\* C11 -- Layer set evolution: the layer set starts as {0} and never loses
\* an element; it gains a height only when a box is accepted off the
\* existing layers, the height gained being the greatest z + height among
\* the boxes already placed (0 if none) and the box's height fitting under
\* the pallet height from there; an acceptance on an existing layer and a
\* failed attempt leave the layer set unchanged; the z of every placed box
\* is a member of the layer set.
LayerEvolution ==
  /\ [](pc = "order" => layers = {0})
  /\ [](0 \in layers
        /\ \A k \in 1..Len(placed_boxes) : PlacedRecs[k].position[3] \in layers)
  /\ [][ /\ layers \subseteq layers'
         /\ layers' # layers =>
              /\ AcceptStep
              /\ boxes'[sorted_boxes[idx]].position[3] \notin layers
              /\ boxes'[sorted_boxes[idx]].position[3] = TopOf(PlacedRecs)
              /\ layers' = layers \cup {TopOf(PlacedRecs)}
              /\ TopOf(PlacedRecs) + boxes[sorted_boxes[idx]].original_height
                   <= pallet.height
         /\ (AcceptStep /\ boxes'[sorted_boxes[idx]].position[3] \in layers)
              => layers' = layers
         /\ (AcceptStep /\ boxes'[sorted_boxes[idx]].position[3] \notin layers)
              => layers' # layers
         /\ FailStep => layers' = layers ]_vars

\* a finished run that opened a layer at the top of the floor boxes and then
\* accepted a second box on that layer, the layer set standing as it was
LayerEvolutionWitness ==
  /\ pc = "done"
  /\ Cardinality(layers) = 2
  /\ \E j \in 1..Len(placed_boxes) : \E k \in 1..Len(placed_boxes) :
        /\ j < k
        /\ PlacedRecs[k].position[3] > 0
        /\ PlacedRecs[j].position[3] = PlacedRecs[k].position[3]

====
